---- MODULE Spec2Model ----
(***************************************************************************)
(* Model of the SPDY response stream (type stream: Write, WriteHeader,     *)
(* receiveFrame, wait, processInput, run) and of its pending-data queue.   *)
(*                                                                         *)
(* Byte strings are kept exactly, as lists of segments: the segment        *)
(* [buf |-> k, lo |-> a, hi |-> b] stands for the bytes a..b-1 of buffer   *)
(* k, and every byte of every buffer is a value of its own.  Slicing and   *)
(* appending are computed on the segments, so a 100000-byte write costs    *)
(* one segment.  Two byte strings are equal iff their normalised segment   *)
(* lists are equal.  A byte string argument is a value: the model does not *)
(* let the caller overwrite a buffer it has handed to Write.               *)
(*                                                                         *)
(* int64 values (transferWindow, the deltas) are kept as pairs             *)
(* <<hi, lo>> = hi * 2^16 + lo, since 0x80000000 does not fit a 32-bit    *)
(* integer.  Go's int is taken to be 64 bits wide.                         *)
(***************************************************************************)
EXTENDS Integers, Sequences, FiniteSets, TLC

-----------------------------------------------------------------------------
(* Bounds of the model *)

MaxOps   == 3     \* calls of Write and WriteHeader plus frames sent to the stream
StreamID == 1     \* the id of the stream

-----------------------------------------------------------------------------
(* int64 arithmetic on <<hi, lo>> pairs *)

Base == 2^16

W(n) == <<n \div Base, n % Base>>

WAdd(a, b) == <<a[1] + b[1] + ((a[2] + b[2]) \div Base), (a[2] + b[2]) % Base>>

WSub(a, b) == <<a[1] - b[1] + ((a[2] - b[2]) \div Base), (a[2] - b[2]) % Base>>

WLt(a, b) == a[1] < b[1] \/ (a[1] = b[1] /\ a[2] < b[2])

WLeq(a, b) == a = b \/ WLt(a, b)

WInt(a) == a[1] * Base + a[2]

WMin(a, b) == IF WLt(a, b) THEN a ELSE b

-----------------------------------------------------------------------------
(* Byte strings as segment lists *)

NoBytes == <<>>

Buffer(k, n) == IF n = 0 THEN NoBytes ELSE <<[buf |-> k, lo |-> 0, hi |-> n]>>

RECURSIVE BLen(_)
BLen(d) == IF d = <<>> THEN 0 ELSE (d[1].hi - d[1].lo) + BLen(Tail(d))

\* a ++ b, merging the segments that meet
BCat(a, b) ==
  IF a = <<>> THEN b
  ELSE IF b = <<>> THEN a
  ELSE LET x == a[Len(a)]
           y == b[1]
       IN IF x.buf = y.buf /\ x.hi = y.lo
          THEN SubSeq(a, 1, Len(a) - 1) \o <<[x EXCEPT !.hi = y.hi]>> \o Tail(b)
          ELSE a \o b

\* d[:n], for 0 <= n <= len(d)
RECURSIVE BTake(_, _)
BTake(d, n) ==
  IF n = 0 \/ d = <<>> THEN <<>>
  ELSE LET l == d[1].hi - d[1].lo
       IN IF n < l THEN <<[d[1] EXCEPT !.hi = d[1].lo + n]>>
          ELSE <<d[1]>> \o BTake(Tail(d), n - l)

\* d[n:], for 0 <= n <= len(d)
RECURSIVE BDrop(_, _)
BDrop(d, n) ==
  IF n = 0 \/ d = <<>> THEN d
  ELSE LET l == d[1].hi - d[1].lo
       IN IF n < l THEN <<[d[1] EXCEPT !.lo = d[1].lo + n]>> \o Tail(d)
          ELSE BDrop(Tail(d), n - l)

-----------------------------------------------------------------------------
(* Constants of the program *)

StatusOK == 200

InitialWindow == 65536

\* 0x80000000, the bound receiveFrame compares against
WindowCheck == WAdd(W(2147483647), W(1))

\* 2^31 - 1, the largest window the protocol allows
MaxWindow == W(2147483647)

\* the lengths the handler passes to Write, and the deltas and payload length
\* the peer sends
WriteLens == {0, 34464, 65536, 100000}

Deltas == {W(0), W(40000), W(2147418112), W(2147483647)}

Codes == {200, 404}

PayloadLen == 5

-----------------------------------------------------------------------------
(* Headers: a mapping from names to values, "" for a name that is not set *)

HeaderNames == {":status", ":version", "x-extra"}

NoHeaders == [k \in HeaderNames |-> ""]

Set(h, k, v) == [h EXCEPT ![k] = v]

\* Header.Update: the fields of the frame replace those of the same name
Update(h, g) == [k \in HeaderNames |-> IF g[k] # "" THEN g[k] ELSE h[k]]

Digit(d) == CASE d = 0 -> "0" [] d = 1 -> "1" [] d = 2 -> "2" [] d = 3 -> "3"
              [] d = 4 -> "4" [] d = 5 -> "5" [] d = 6 -> "6" [] d = 7 -> "7"
              [] d = 8 -> "8" [] d = 9 -> "9"

\* fmt.Sprint of a non-negative int: its decimal digits
RECURSIVE Sprint(_)
Sprint(n) == IF n < 10 THEN Digit(n) ELSE Sprint(n \div 10) \o Digit(n % 10)

-----------------------------------------------------------------------------
(* Frames *)

Frame(t) == [type |-> t, streamID |-> 0, flags |-> "", headers |-> NoHeaders,
             data |-> NoBytes, status |-> "", delta |-> W(0)]

DataFrame(id, d) == [Frame("DATA") EXCEPT !.streamID = id, !.data = d]

SynReplyFrame(id, h, fl) ==
  [Frame("SYN_REPLY") EXCEPT !.streamID = id, !.headers = h, !.flags = fl]

RstStreamFrame(id, st) == [Frame("RST_STREAM") EXCEPT !.streamID = id, !.status = st]

HeadersFrame(h) == [Frame("HEADERS") EXCEPT !.headers = h]

WindowUpdateFrame(d) == [Frame("WINDOW_UPDATE") EXCEPT !.delta = d]

PingFrame == Frame("PING")

-----------------------------------------------------------------------------
(* The pending queue.  A queue is [alloc, data]: alloc is FALSE for the nil *)
(* *queue of a stream that has not run, data is q.data (nil = no bytes).     *)

NilQueue == [alloc |-> FALSE, data |-> NoBytes]

NewQueue == [alloc |-> TRUE, data |-> NoBytes]

Push(q, data) ==
  IF q.data = NoBytes THEN [q EXCEPT !.data = data]
  ELSE [q EXCEPT !.data = BCat(q.data, data)]

\* Pop as it would be if it took the bytes from the tail of the queue
PopTail(q, n) ==
  IF WLt(n, W(BLen(q.data)))
  THEN [out |-> BDrop(q.data, BLen(q.data) - WInt(n)),
        q |-> [q EXCEPT !.data = BTake(q.data, BLen(q.data) - WInt(n))]]
  ELSE [out |-> q.data, q |-> [q EXCEPT !.data = NoBytes]]

\* Pop as it would be if it returned the bytes and left them in the queue
PopKeep(q, n) ==
  IF WLt(n, W(BLen(q.data)))
  THEN [out |-> BTake(q.data, WInt(n)), q |-> q]
  ELSE [out |-> q.data, q |-> q]

\* Pop(n), n an int64 pair: the bytes popped and the queue left
Pop(q, n) ==
  IF WLt(n, W(BLen(q.data)))
  THEN [out |-> BTake(q.data, WInt(n)), q |-> [q EXCEPT !.data = BDrop(q.data, WInt(n))]]
  ELSE [out |-> q.data, q |-> [q EXCEPT !.data = NoBytes]]

-----------------------------------------------------------------------------
(* The stream.  st.output is the sequence of frames the stream has sent on  *)
(* s.output; st.panic is "" until a method panics, and a panic leaves the   *)
(* fields as they were at the panic.  st.acceptedDeltas is a history field: *)
(* the sum of the deltas that passed the check of receiveFrame.             *)

NewStream(id) ==
  [streamID |-> id, stop |-> FALSE, wroteHeader |-> FALSE, responseCode |-> 0,
   headers |-> NoHeaders, transferWindow |-> W(0), queuedData |-> NilQueue,
   requestBody |-> NoBytes, output |-> <<>>, panic |-> "",
   acceptedDeltas |-> W(0)]

Send(st, frame) == [st EXCEPT !.output = Append(@, frame)]

\* WriteHeader as it would be without the wroteHeader test
WriteHeaderAgain(st, code) ==
  LET h == Set(Set(st.headers, ":status", Sprint(code)), ":version", "HTTP/1.1")
  IN Send([st EXCEPT !.wroteHeader = TRUE, !.responseCode = code, !.headers = h],
          SynReplyFrame(st.streamID, h, ""))

WriteHeader(st, code) ==
  IF st.wroteHeader THEN st
  ELSE LET h == Set(Set(st.headers, ":status", Sprint(code)), ":version", "HTTP/1.1")
       IN Send([st EXCEPT !.wroteHeader = TRUE, !.responseCode = code, !.headers = h],
               SynReplyFrame(st.streamID, h, ""))

\* Write as it would be if it tested the stop flag after writing the header
WriteStopLate(st, data) ==
  LET s1 == IF ~st.wroteHeader THEN WriteHeader(st, StatusOK) ELSE st
  IN IF s1.stop THEN [st |-> s1, n |-> 0, err |-> "ErrCancelled"]
     ELSE IF BLen(data) = 0 THEN [st |-> s1, n |-> 0, err |-> "nil"]
     ELSE
       LET over == WLt(s1.transferWindow, W(BLen(data)))
           tw == WInt(s1.transferWindow)
           s2 == IF over
                 THEN [s1 EXCEPT !.queuedData = Push(@, BDrop(data, tw))]
                 ELSE s1
           d  == IF over THEN BTake(data, tw) ELSE data
           s3 == [s2 EXCEPT !.transferWindow = WSub(@, W(BLen(d)))]
       IN [st |-> Send(s3, DataFrame(s3.streamID, d)), n |-> BLen(d), err |-> "nil"]

\* Write as it would be without the implicit WriteHeader
WriteNoHeader(st, data) ==
  IF st.stop THEN [st |-> st, n |-> 0, err |-> "ErrCancelled"]
  ELSE IF BLen(data) = 0 THEN [st |-> st, n |-> 0, err |-> "nil"]
  ELSE
    LET over == WLt(st.transferWindow, W(BLen(data)))
        tw == WInt(st.transferWindow)
        s2 == IF over
              THEN [st EXCEPT !.queuedData = Push(@, BDrop(data, tw))]
              ELSE st
        d  == IF over THEN BTake(data, tw) ELSE data
        s3 == [s2 EXCEPT !.transferWindow = WSub(@, W(BLen(d)))]
    IN [st |-> Send(s3, DataFrame(s3.streamID, d)), n |-> BLen(d), err |-> "nil"]

\* Write as it would be without the window: all of data is sent at once
WriteUnbounded(st, data) ==
  IF st.stop THEN [st |-> st, n |-> 0, err |-> "ErrCancelled"]
  ELSE
    LET s1 == IF ~st.wroteHeader THEN WriteHeader(st, StatusOK) ELSE st
    IN IF BLen(data) = 0 THEN [st |-> s1, n |-> 0, err |-> "nil"]
       ELSE [st |-> Send([s1 EXCEPT !.transferWindow = WSub(@, W(BLen(data)))],
                         DataFrame(s1.streamID, data)),
             n |-> BLen(data), err |-> "nil"]

\* Write as it would be if it queued data[:window] and sent data[window:]
WriteSwapped(st, data) ==
  IF st.stop THEN [st |-> st, n |-> 0, err |-> "ErrCancelled"]
  ELSE
    LET s1 == IF ~st.wroteHeader THEN WriteHeader(st, StatusOK) ELSE st
    IN IF BLen(data) = 0 THEN [st |-> s1, n |-> 0, err |-> "nil"]
       ELSE
         LET over == WLt(s1.transferWindow, W(BLen(data)))
             tw == WInt(s1.transferWindow)
             k  == IF over THEN BLen(data) - tw ELSE 0
             s2 == IF over
                   THEN [s1 EXCEPT !.queuedData = Push(@, BDrop(data, k))]
                   ELSE s1
             d  == IF over THEN BTake(data, k) ELSE data
             s3 == [s2 EXCEPT !.transferWindow = WSub(@, W(BLen(d)))]
         IN [st |-> Send(s3, DataFrame(s3.streamID, d)), n |-> BLen(d), err |-> "nil"]

\* Write returns [st, n, err]
Write(st, data) ==
  IF st.stop THEN [st |-> st, n |-> 0, err |-> "ErrCancelled"]
  ELSE
    LET s1 == IF ~st.wroteHeader THEN WriteHeader(st, StatusOK) ELSE st
    IN IF BLen(data) = 0 THEN [st |-> s1, n |-> 0, err |-> "nil"]
       ELSE
         LET over == WLt(s1.transferWindow, W(BLen(data)))
         IN IF over /\ (~s1.queuedData.alloc \/ WLt(s1.transferWindow, W(0)))
            THEN \* nil *queue, or a slice bound below 0
                 [st |-> [s1 EXCEPT !.panic = "Write"], n |-> 0, err |-> "panic"]
            ELSE
              LET tw == WInt(s1.transferWindow)
                  s2 == IF over
                        THEN [s1 EXCEPT !.queuedData = Push(@, BDrop(data, tw))]
                        ELSE s1
                  d  == IF over THEN BTake(data, tw) ELSE data
                  s3 == [s2 EXCEPT !.transferWindow = WSub(@, W(BLen(d)))]
              IN [st |-> Send(s3, DataFrame(s3.streamID, d)), n |-> BLen(d), err |-> "nil"]

\* receiveFrame as it would be if a WINDOW_UPDATE grew the window and left the
\* queue alone
receiveFrameNoFlush(st, frame) ==
  CASE frame.type = "DATA" ->
         [st EXCEPT !.requestBody = BCat(@, frame.data)]
    [] frame.type = "HEADERS" ->
         [st EXCEPT !.headers = Update(@, frame.headers)]
    [] frame.type = "WINDOW_UPDATE" ->
         IF WLt(WindowCheck, WAdd(frame.delta, st.transferWindow))
         THEN Send(st, RstStreamFrame(st.streamID, "RST_STREAM_FLOW_CONTROL_ERROR"))
         ELSE [st EXCEPT !.transferWindow = WAdd(@, frame.delta),
                         !.acceptedDeltas = WAdd(@, frame.delta)]
    [] OTHER ->
         [st EXCEPT !.panic = "receiveFrame: unknown frame"]

receiveFrame(st, frame) ==
  CASE frame.type = "DATA" ->
         [st EXCEPT !.requestBody = BCat(@, frame.data)]
    [] frame.type = "HEADERS" ->
         [st EXCEPT !.headers = Update(@, frame.headers)]
    [] frame.type = "WINDOW_UPDATE" ->
         IF WLt(WindowCheck, WAdd(frame.delta, st.transferWindow))
         THEN Send(st, RstStreamFrame(st.streamID, "RST_STREAM_FLOW_CONTROL_ERROR"))
         ELSE
           LET s1 == [st EXCEPT !.transferWindow = WAdd(@, frame.delta),
                                !.acceptedDeltas = WAdd(@, frame.delta)]
           IN IF ~s1.queuedData.alloc
              THEN [s1 EXCEPT !.panic = "receiveFrame: nil queue"]
              ELSE
                LET p  == Pop(s1.queuedData, s1.transferWindow)
                    s2 == [s1 EXCEPT !.queuedData = p.q]
                IN IF BLen(p.out) > 0
                   THEN LET r == Write(s2, p.out)
                        IN IF r.err # "nil"
                           THEN [r.st EXCEPT !.panic = "receiveFrame: " \o r.err]
                           ELSE r.st
                   ELSE s2
    [] OTHER ->
         [st EXCEPT !.panic = "receiveFrame: unknown frame"]

\* processInput: receiveFrame on every frame waiting in the input, in order
RECURSIVE processInput(_, _)
processInput(st, in) ==
  IF in = <<>> \/ st.panic # "" THEN st
  ELSE processInput(receiveFrame(st, Head(in)), Tail(in))

\* the frames processInput leaves in the input: none, unless receiveFrame
\* panicked on the way
RECURSIVE Unreceived(_, _)
Unreceived(st, in) ==
  IF in = <<>> \/ st.panic # "" THEN in
  ELSE Unreceived(receiveFrame(st, Head(in)), Tail(in))

\* run, up to the call of the handler
runBefore(st, in) ==
  LET s1 == processInput([st EXCEPT !.requestBody = NoBytes], in)
  IN IF s1.panic # "" THEN s1
     ELSE [s1 EXCEPT !.transferWindow = W(InitialWindow), !.queuedData = NewQueue]

\* run's completion as it would be if the default reply did not carry FLAG_FIN
\* and the stream were then reset
runAfterReset(st) ==
  IF ~st.wroteHeader
  THEN LET h == Set(Set(st.headers, ":status", "200"), ":version", "HTTP/1.1")
       IN Send(Send([st EXCEPT !.headers = h], SynReplyFrame(st.streamID, h, "")),
               RstStreamFrame(st.streamID, "RST_STREAM_CANCEL"))
  ELSE Send(st, RstStreamFrame(st.streamID, "RST_STREAM_CANCEL"))

\* run, after the handler has returned
runAfter(st) ==
  IF ~st.wroteHeader
  THEN LET h == Set(Set(st.headers, ":status", "200"), ":version", "HTTP/1.1")
       IN Send([st EXCEPT !.headers = h], SynReplyFrame(st.streamID, h, "FLAG_FIN"))
  ELSE Send(st, RstStreamFrame(st.streamID, "RST_STREAM_CANCEL"))

-----------------------------------------------------------------------------
(* State *)

VARIABLES
  s,         \* the stream
  input,     \* s.input: the frames sent to the stream and not yet received
  pc,        \* where run is: "new", "handler", "done"
  written,   \* history: the arguments of the handler's Writes that returned no error
  last,      \* history: the last operation, its arguments and its results
  delivered, \* history: all the frames sent to the stream, in order
  nWrites, nHeaders, nFrames,
  callers    \* the goroutines that call Write and WriteHeader concurrently: for
             \* each its position in the method and its locals; <<>> when the
             \* handler calls from one goroutine

streamVars == <<s, input, pc, written, last, delivered, nWrites, nHeaders, nFrames,
                callers>>

\* the connection (src/spdy3/conn.go) and its goroutines
VARIABLES
  c,         \* the Conn the constructor returned
  sendq,     \* the goroutines blocked in a send on one of c.output, in arrival order
  transport, \* history: the frames the send loop wrote to the transport
  streams,   \* the streams newStream created, in creation order
  runpc,     \* where Run is
  sendpc,    \* where the send loop is
  taken,     \* the sender whose frame the send loop holds
  readpc,    \* where the read loop is
  userpc,    \* where the local caller of Close is
  once,      \* c.shutdownOnce
  crashed,   \* an unrecovered panic has ended the process
  ev,        \* history: the last connection event
  nEvents

connVars == <<c, sendq, transport, streams, runpc, sendpc, taken, readpc, userpc,
              once, crashed, ev, nEvents>>

\* the frame codec (src/spdy.go)
VARIABLES
  frameIn,   \* the frame to encode
  bytesOut,  \* what Bytes returned for it
  frameOut,  \* what Parse made of those bytes
  codecpc

codecVars == <<frameIn, bytesOut, frameOut, codecpc>>

vars == <<streamVars, connVars, codecVars>>

\* the connection is not part of the run
ConnOff ==
  /\ c = [kind |-> "none"]
  /\ sendq = <<>> /\ transport = <<>> /\ streams = <<>>
  /\ runpc = "off" /\ sendpc = "off" /\ readpc = "off" /\ userpc = "off"
  /\ taken = [from |-> 0] /\ once = [runs |-> 0]
  /\ crashed = FALSE /\ ev = [op |-> "off"] /\ nEvents = 0

\* the codec is not part of the run
CodecOff ==
  /\ frameIn = [type |-> "none"]
  /\ bytesOut = [type |-> "none"] /\ frameOut = [type |-> "none"]
  /\ codecpc = "off"

Op(name) == [op |-> name, data |-> NoBytes, code |-> 0, frame |-> Frame(""),
             n |-> 0, err |-> ""]

HeaderSets == {[NoHeaders EXCEPT !["x-extra"] = "v", ![":status"] = "500"]}

InFrames(k) ==
  {DataFrame(StreamID, Buffer(100 + k, PayloadLen)),
   [DataFrame(StreamID, Buffer(100 + k, PayloadLen)) EXCEPT !.flags = "FLAG_FIN"],
   PingFrame}
    \cup {HeadersFrame(h) : h \in HeaderSets}
    \cup {WindowUpdateFrame(d) : d \in Deltas}

StreamInit ==
  /\ s = NewStream(StreamID)
  /\ input = <<>>
  /\ pc = "new"
  /\ written = NoBytes
  /\ last = Op("new")
  /\ delivered = <<>>
  /\ nWrites = 0 /\ nHeaders = 0 /\ nFrames = 0
  /\ callers = <<>>

Init == StreamInit /\ ConnOff /\ CodecOff

Running == pc = "handler" /\ s.panic = ""

\* the run may take one more call or frame
More == nWrites + nHeaders + nFrames < MaxOps

\* the connection sends a frame to the stream's input
Deliver ==
  /\ pc # "done" /\ s.panic = ""
  /\ More
  /\ \E f \in InFrames(nFrames + 1) :
       /\ input' = Append(input, f)
       /\ delivered' = Append(delivered, f)
       /\ last' = [Op("Deliver") EXCEPT !.frame = f]
  /\ nFrames' = nFrames + 1
  /\ UNCHANGED <<s, pc, written, nWrites, nHeaders, callers,
               connVars, codecVars>>

\* run starts: it drains the input, primes the window and calls the handler
Start ==
  /\ pc = "new" /\ s.panic = ""
  /\ s' = runBefore(s, input)
  /\ input' = Unreceived([s EXCEPT !.requestBody = NoBytes], input)
  /\ pc' = IF s'.panic = "" THEN "handler" ELSE "new"
  /\ last' = Op("Start")
  /\ UNCHANGED <<written, delivered, nWrites, nHeaders, nFrames, callers,
               connVars, codecVars>>

\* the handler calls Write
HandlerWrite ==
  /\ Running
  /\ More
  /\ \E len \in WriteLens :
       LET data == Buffer(nWrites + 1, len)
           r == Write(s, data)
       IN /\ s' = r.st
          /\ written' = IF r.err = "nil" THEN BCat(written, data) ELSE written
          /\ last' = [Op("Write") EXCEPT !.data = data, !.n = r.n, !.err = r.err]
  /\ nWrites' = nWrites + 1
  /\ UNCHANGED <<input, pc, delivered, nHeaders, nFrames, callers,
               connVars, codecVars>>

\* the handler calls WriteHeader
HandlerWriteHeader ==
  /\ Running
  /\ More
  /\ \E code \in Codes :
       /\ s' = WriteHeader(s, code)
       /\ last' = [Op("WriteHeader") EXCEPT !.code = code]
  /\ nHeaders' = nHeaders + 1
  /\ UNCHANGED <<input, pc, written, delivered, nWrites, nFrames, callers,
               connVars, codecVars>>

\* wait: one frame is received from the input while the handler runs
Wait ==
  /\ Running
  /\ input # <<>>
  /\ s' = receiveFrame(s, Head(input))
  /\ input' = Tail(input)
  /\ last' = [Op("receiveFrame") EXCEPT !.frame = Head(input)]
  /\ UNCHANGED <<pc, written, delivered, nWrites, nHeaders, nFrames, callers,
               connVars, codecVars>>

\* the stream is cancelled
Stop ==
  /\ Running
  /\ ~s.stop
  /\ s' = [s EXCEPT !.stop = TRUE]
  /\ last' = Op("Stop")
  /\ UNCHANGED <<input, pc, written, delivered, nWrites, nHeaders, nFrames, callers,
               connVars, codecVars>>

\* the handler returns and run completes the stream
Finish ==
  /\ Running
  /\ s' = runAfter(s)
  /\ pc' = "done"
  /\ last' = Op("Finish")
  /\ UNCHANGED <<input, written, delivered, nWrites, nHeaders, nFrames, callers,
               connVars, codecVars>>

Next == Deliver \/ Start \/ HandlerWrite \/ HandlerWriteHeader \/ Wait \/ Stop \/ Finish

Spec == Init /\ [][Next]_vars

-----------------------------------------------------------------------------
(* Write and WriteHeader called from several goroutines on one stream.  No  *)
(* method of the stream takes the embedded RWMutex, so the calls interleave *)
(* at every read and write of a field.  A caller's position is the line of  *)
(* src/unnamed/part_000 it is about to execute.                             *)

Goroutines == {1, 2}

\* a goroutine that is in no call
Idle == [pc |-> "idle", op |-> "", data |-> NoBytes, code |-> 0, tw |-> W(0)]

\* run has called the handler with nothing in the input; the handler has
\* started the goroutines
RaceInit ==
  /\ s = runBefore(NewStream(StreamID), <<>>)
  /\ input = <<>>
  /\ pc = "handler"
  /\ written = NoBytes
  /\ last = Op("Start")
  /\ delivered = <<>>
  /\ nWrites = 0 /\ nHeaders = 0 /\ nFrames = 0
  /\ callers = [g \in Goroutines |-> Idle]
  /\ ConnOff /\ CodecOff

\* where a caller goes when WriteHeader returns
AfterHeader(call) ==
  IF call.op = "Write" THEN [call EXCEPT !.pc = "Write:59"] ELSE Idle

\* a goroutine calls Write or WriteHeader
Call ==
  /\ Running /\ More
  /\ \E g \in Goroutines :
       /\ callers[g].pc = "idle"
       /\ \/ \E len \in WriteLens :
               /\ callers' = [callers EXCEPT ![g] =
                    [Idle EXCEPT !.pc = "Write:51", !.op = "Write",
                                 !.data = Buffer(nWrites + 1, len), !.code = StatusOK]]
               /\ nWrites' = nWrites + 1
               /\ UNCHANGED nHeaders
          \/ \E code \in Codes :
               /\ callers' = [callers EXCEPT ![g] =
                    [Idle EXCEPT !.pc = "WriteHeader:83", !.op = "WriteHeader",
                                 !.code = code]]
               /\ nHeaders' = nHeaders + 1
               /\ UNCHANGED nWrites
  /\ UNCHANGED <<s, input, pc, written, last, delivered, nFrames, connVars, codecVars>>

\* Write tests s.stop and s.wroteHeader; WriteHeader tests s.wroteHeader
TestHeader ==
  /\ Running
  /\ \E g \in Goroutines :
       \/ /\ callers[g].pc = "Write:51"
          /\ callers' = [callers EXCEPT ![g] =
               IF s.stop THEN Idle
               ELSE IF ~s.wroteHeader THEN [@ EXCEPT !.pc = "WriteHeader:83"]
               ELSE [@ EXCEPT !.pc = "Write:59"]]
       \/ /\ callers[g].pc = "WriteHeader:83"
          /\ callers' = [callers EXCEPT ![g] =
               IF s.wroteHeader THEN AfterHeader(@)
               ELSE [@ EXCEPT !.pc = "WriteHeader:88"]]
  /\ UNCHANGED <<s, input, pc, written, last, delivered, nWrites, nHeaders, nFrames,
               connVars, codecVars>>

\* WriteHeader sets wroteHeader, the response code and the two headers
SetHeader ==
  /\ Running
  /\ \E g \in Goroutines :
       /\ callers[g].pc = "WriteHeader:88"
       /\ s' = [s EXCEPT !.wroteHeader = TRUE, !.responseCode = callers[g].code,
                         !.headers = Set(Set(@, ":status", Sprint(callers[g].code)),
                                         ":version", "HTTP/1.1")]
       /\ callers' = [callers EXCEPT ![g].pc = "WriteHeader:99"]
  /\ UNCHANGED <<input, pc, written, last, delivered, nWrites, nHeaders, nFrames,
               connVars, codecVars>>

\* WriteHeader sends the SYN_REPLY and returns
SendReply ==
  /\ Running
  /\ \E g \in Goroutines :
       /\ callers[g].pc = "WriteHeader:99"
       /\ s' = Send(s, SynReplyFrame(s.streamID, s.headers, ""))
       /\ callers' = [callers EXCEPT ![g] = AfterHeader(@)]
  /\ UNCHANGED <<input, pc, written, last, delivered, nWrites, nHeaders, nFrames,
               connVars, codecVars>>

\* Write returns on no data; it compares len(data) with the window, queues
\* data[s.transferWindow:] and cuts data to data[:s.transferWindow]
CheckWindow ==
  /\ Running
  /\ \E g \in Goroutines :
       LET data == callers[g].data
           over == WLt(s.transferWindow, W(BLen(data)))
       IN /\ callers[g].pc = "Write:59"
          /\ IF BLen(data) = 0
             THEN /\ callers' = [callers EXCEPT ![g] = Idle]
                  /\ UNCHANGED s
             ELSE IF over /\ WLt(s.transferWindow, W(0))
               THEN \* a slice bound below 0
                    /\ s' = [s EXCEPT !.panic = "Write"]
                    /\ UNCHANGED callers
               ELSE IF over
                 THEN /\ s' = [s EXCEPT !.queuedData =
                                  Push(@, BDrop(data, WInt(s.transferWindow)))]
                      /\ callers' = [callers EXCEPT
                           ![g].data = BTake(data, WInt(s.transferWindow)),
                           ![g].pc = "Write:72"]
                 ELSE /\ callers' = [callers EXCEPT ![g].pc = "Write:72"]
                      /\ UNCHANGED s
  /\ UNCHANGED <<input, pc, written, last, delivered, nWrites, nHeaders, nFrames,
               connVars, codecVars>>

\* s.transferWindow -= int64(len(data)): the load
LoadWindow ==
  /\ Running
  /\ \E g \in Goroutines :
       /\ callers[g].pc = "Write:72"
       /\ callers' = [callers EXCEPT ![g].tw = s.transferWindow,
                                     ![g].pc = "Write:72 store"]
  /\ UNCHANGED <<s, input, pc, written, last, delivered, nWrites, nHeaders, nFrames,
               connVars, codecVars>>

\* s.transferWindow -= int64(len(data)): the store
StoreWindow ==
  /\ Running
  /\ \E g \in Goroutines :
       /\ callers[g].pc = "Write:72 store"
       /\ s' = [s EXCEPT !.transferWindow =
                  WSub(callers[g].tw, W(BLen(callers[g].data)))]
       /\ callers' = [callers EXCEPT ![g].pc = "Write:74"]
  /\ UNCHANGED <<input, pc, written, last, delivered, nWrites, nHeaders, nFrames,
               connVars, codecVars>>

\* Write sends the DATA frame and returns
SendData ==
  /\ Running
  /\ \E g \in Goroutines :
       /\ callers[g].pc = "Write:74"
       /\ s' = Send(s, DataFrame(s.streamID, callers[g].data))
       /\ callers' = [callers EXCEPT ![g] = Idle]
  /\ UNCHANGED <<input, pc, written, last, delivered, nWrites, nHeaders, nFrames,
               connVars, codecVars>>

RaceNext ==
  \/ Call \/ TestHeader \/ SetHeader \/ SendReply
  \/ CheckWindow \/ LoadWindow \/ StoreWindow \/ SendData

RaceSpec == RaceInit /\ [][RaceNext]_vars

-----------------------------------------------------------------------------
(* What the stream has emitted *)

RECURSIVE DataBytes(_)
DataBytes(out) ==
  IF out = <<>> THEN 0
  ELSE (IF out[1].type = "DATA" THEN BLen(out[1].data) ELSE 0) + DataBytes(Tail(out))

RECURSIVE Payloads(_)
Payloads(out) ==
  IF out = <<>> THEN NoBytes
  ELSE BCat(IF out[1].type = "DATA" THEN out[1].data ELSE NoBytes, Payloads(Tail(out)))

OfType(out, t) == SelectSeq(out, LAMBDA f : f.type = t)

\* the frames a step has added to the output
Emitted(before, after) == SubSeq(after, Len(before) + 1, Len(after))

-----------------------------------------------------------------------------
\* C1: the DATA bytes a stream has emitted never exceed 65536 plus the sum of
\* the deltas of the WINDOW_UPDATE frames it accepted, and transferWindow is
\* never negative; once run has primed the window, the bytes emitted plus the
\* window are exactly 65536 plus the accepted deltas.
WindowNeverOverrun ==
  /\ WLeq(W(0), s.transferWindow)
  /\ WLeq(W(DataBytes(s.output)), WAdd(W(InitialWindow), s.acceptedDeltas))
  /\ pc # "new" =>
       WAdd(W(DataBytes(s.output)), s.transferWindow)
         = WAdd(W(InitialWindow), s.acceptedDeltas)

\* a stream that has emitted more than the initial window, on credit it accepted
WindowNeverOverrunWitness ==
  /\ DataBytes(s.output) > InitialWindow
  /\ s.acceptedDeltas # W(0)
  /\ s.transferWindow = W(0)
  /\ s.queuedData.data # NoBytes

\* C2: while the stream lives (no method has panicked), the payloads of the
\* DATA frames emitted, followed by the pending queue, are the arguments of
\* the handler's successful Writes, concatenated in call order.
NoByteLostOrReordered ==
  s.panic = "" => BCat(Payloads(s.output), s.queuedData.data) = written

\* two writes and a flush, part of the written bytes still queued
NoByteLostOrReorderedWitness ==
  /\ s.panic = ""
  /\ Len(written) = 2
  /\ Len(OfType(s.output, "DATA")) >= 3
  /\ s.queuedData.data # NoBytes
  /\ s.acceptedDeltas # W(0)

\* C3: a Write on a non-stopped stream with len(data) > transferWindow emits
\* exactly one DATA frame, carrying the first transferWindow bytes of data,
\* appends the other bytes to the tail of the pending queue and leaves
\* transferWindow 0.
PartialWrite ==
  [][(/\ last'.op = "Write"
      /\ ~s.stop
      /\ WLt(s.transferWindow, W(BLen(last'.data))))
     => LET tw == WInt(s.transferWindow)
        IN /\ OfType(Emitted(s.output, s'.output), "DATA")
                = <<DataFrame(s.streamID, BTake(last'.data, tw))>>
           /\ s'.queuedData.data = BCat(s.queuedData.data, BDrop(last'.data, tw))
           /\ s'.transferWindow = W(0)
           /\ last'.err = "nil"]_vars

\* a Write that sent a non-empty prefix of its data and queued the rest
PartialWriteWitness ==
  /\ last.op = "Write" /\ last.err = "nil"
  /\ 0 < last.n /\ last.n < BLen(last.data)
  /\ s.transferWindow = W(0)
  /\ Len(s.queuedData.data) = 1
  /\ s.queuedData.data = BDrop(last.data, last.n)

\* C4: transferWindow never exceeds 2^31 - 1.
WindowCeiling == WLeq(s.transferWindow, MaxWindow)

\* the deltas of the WINDOW_UPDATE frames waiting in the input
RECURSIVE PendingDeltas(_)
PendingDeltas(in) ==
  IF in = <<>> THEN W(0)
  ELSE WAdd(IF in[1].type = "WINDOW_UPDATE" THEN in[1].delta ELSE W(0),
            PendingDeltas(Tail(in)))

QueueFlushedBeforeTerminal ==
  (/\ pc = "done"
   /\ ~s.stop
   /\ WLeq(W(BLen(s.queuedData.data)), PendingDeltas(input)))
  => s.queuedData.data = NoBytes

\* C7: a Write on a stream whose stop flag is set returns 0 and ErrCancelled
\* and changes nothing: no frame is sent, and wroteHeader, transferWindow and
\* the pending queue stay as they were; the stop flag, once set, stays set.
WriteAfterStop ==
  [][/\ (last'.op = "Write" /\ s.stop)
        => /\ last'.n = 0
           /\ last'.err = "ErrCancelled"
           /\ s' = s
           /\ written' = written
     /\ s.stop => s'.stop]_vars

\* a Write of some bytes refused on a stopped stream that has no header yet
WriteAfterStopWitness ==
  /\ last.op = "Write"
  /\ last.err = "ErrCancelled"
  /\ BLen(last.data) > 0
  /\ s.stop
  /\ ~s.wroteHeader
  /\ s.output = <<>>

\* C8: in the output of a stream every DATA frame comes after a SYN_REPLY,
\* and a Write on a non-stopped stream whose header is not written emits
\* first a SYN_REPLY with status 200.
ReplyBeforeData ==
  /\ [](\A i \in 1..Len(s.output) :
          s.output[i].type = "DATA"
            => \E j \in 1..(i - 1) : s.output[j].type = "SYN_REPLY")
  /\ [][(last'.op = "Write" /\ ~s.stop /\ ~s.wroteHeader)
        => LET e == Emitted(s.output, s'.output)
           IN /\ Len(e) >= 1
              /\ e[1].type = "SYN_REPLY"
              /\ e[1].headers[":status"] = "200"
              /\ e[1].flags = ""
              /\ s'.responseCode = 200]_vars

\* a first Write that emitted the SYN_REPLY and then its DATA frame
ReplyBeforeDataWitness ==
  /\ last.op = "Write"
  /\ nHeaders = 0
  /\ Len(s.output) = 2
  /\ s.output[1].type = "SYN_REPLY"
  /\ s.output[2].type = "DATA"
  /\ s.output[2].data # NoBytes

\* C9: WriteHeader takes effect once: a call on a stream whose header is
\* written changes nothing (no frame, responseCode and :status as before), a
\* call always leaves the header written, and the output holds one SYN_REPLY
\* if the header is written or the stream is complete, none otherwise.
WriteHeaderOnce ==
  /\ [](Len(OfType(s.output, "SYN_REPLY"))
          = IF s.wroteHeader \/ pc = "done" THEN 1 ELSE 0)
  /\ [][last'.op = "WriteHeader"
        => /\ s'.wroteHeader
           /\ s.wroteHeader => s' = s]_vars

\* a second WriteHeader, with another status code, after a Write
WriteHeaderOnceWitness ==
  /\ last.op = "WriteHeader"
  /\ nHeaders = 2
  /\ nWrites >= 1
  /\ last.code # s.responseCode
  /\ s.headers[":status"] = Sprint(s.responseCode)
  /\ Len(OfType(s.output, "SYN_REPLY")) = 1

\* C10: when the handler returns and neither WriteHeader nor Write was
\* called, completion emits one frame: a SYN_REPLY of the stream with status
\* 200 and FLAG_FIN, and no RST_STREAM.
DefaultReply ==
  [][(last'.op = "Finish" /\ nWrites = 0 /\ nHeaders = 0)
     => LET e == Emitted(s.output, s'.output)
        IN /\ Len(e) = 1
           /\ e[1].type = "SYN_REPLY"
           /\ e[1].streamID = s.streamID
           /\ e[1].headers[":status"] = "200"
           /\ e[1].flags = "FLAG_FIN"
           /\ OfType(e, "RST_STREAM") = <<>>]_vars

\* a stream completed with no call of Write or WriteHeader
DefaultReplyWitness ==
  /\ last.op = "Finish"
  /\ pc = "done"
  /\ nWrites = 0 /\ nHeaders = 0
  /\ Len(s.output) = 1
  /\ s.output[1].flags = "FLAG_FIN"

\* C11: at completion an RST_STREAM with the cancel status is emitted exactly
\* when the header was written and the stream was cancelled (stop flag set).
ResetOnlyWhenCancelled ==
  [][last'.op = "Finish"
     => ((RstStreamFrame(s.streamID, "RST_STREAM_CANCEL")
            \in {Emitted(s.output, s'.output)[i] :
                   i \in 1..Len(Emitted(s.output, s'.output))})
          <=> (s.wroteHeader /\ s.stop))]_vars

\* the frames the stream has taken from its input, in order
ReceivedFrames == SubSeq(delivered, 1, Len(delivered) - Len(input))

\* the request body is always the payloads of the DATA frames received so
\* far, in the order received (a lemma for C12 and C13)
BodyIsReceivedData == s.requestBody = Payloads(ReceivedFrames)

\* C12: when run has drained an input that held DATA, HEADERS and
\* WINDOW_UPDATE frames, the request body is the concatenation of the
\* payloads of the DATA frames, in arrival order.
BodyInArrivalOrder ==
  (/\ last.op = "Start"
   /\ \A i \in 1..Len(delivered) :
        delivered[i].type \in {"DATA", "HEADERS", "WINDOW_UPDATE"})
  => s.requestBody = Payloads(delivered)

\* the frames up to the first DATA frame that carries FLAG_FIN
RECURSIVE UpToFin(_)
UpToFin(fs) ==
  IF fs = <<>> THEN <<>>
  ELSE IF fs[1].type = "DATA" /\ fs[1].flags = "FLAG_FIN" THEN <<fs[1]>>
  ELSE <<fs[1]>> \o UpToFin(Tail(fs))

HasFin(fs) == \E i \in 1..Len(fs) : fs[i].type = "DATA" /\ fs[i].flags = "FLAG_FIN"

\* C13: when the peer has sent DATA frames ending with FLAG_FIN and the
\* handler has run, the request body the handler had holds the payload of
\* every DATA frame up to the FIN, whenever run started.
HandlerBodyComplete ==
  (/\ pc = "done"
   /\ HasFin(delivered)
   /\ \A i \in 1..Len(delivered) : delivered[i].type = "DATA")
  => LET p == Payloads(UpToFin(delivered))
     IN BTake(s.requestBody, BLen(p)) = p


\* C28: the count a successful Write returns is the number of bytes of its
\* argument the stream has taken, sent or queued, so that resubmitting
\* data[n:] sends no byte twice.
WriteCountsTakenBytes ==
  (last.op = "Write" /\ last.err = "nil")
    => last.n = BLen(last.data)

\* C31: on a stream that is not stopped, bytes wait in the pending queue
\* only while transferWindow is 0, after every Write of the handler and every
\* WINDOW_UPDATE received.
QueuedOnlyWithoutCredit ==
  (pc = "handler" /\ ~s.stop /\ s.queuedData.data # NoBytes)
    => s.transferWindow = W(0)

\* a WINDOW_UPDATE has flushed a part of the queue: it gave less credit than
\* there were bytes queued, the rest waits and the window is 0 again
QueuedOnlyWithoutCreditWitness ==
  /\ last.op = "receiveFrame" /\ last.frame = WindowUpdateFrame(W(40000))
  /\ ~s.stop /\ s.panic = ""
  /\ BLen(s.queuedData.data) = 94464
  /\ DataBytes(s.output) = 105536
  /\ s.transferWindow = W(0)

\* C32: a WINDOW_UPDATE that waits in the input when run starts is received
\* without a panic, and when the handler starts transferWindow is 65536 plus
\* the sum of the deltas accepted so far.
UpdateBeforeRunCounts ==
  /\ s.panic # "receiveFrame: nil queue"
  /\ (pc = "handler" /\ last.op = "Start")
       => s.transferWindow = WAdd(W(InitialWindow), s.acceptedDeltas)

\* C33: when two goroutines call WriteHeader or Write on one stream at the
\* same time, then under every interleaving, once the calls have returned,
\* no call has panicked, exactly one SYN_REPLY has been emitted and
\* transferWindow has gone down by exactly the number of DATA bytes emitted.
ConcurrentCallsSerialised ==
  callers # <<>> =>
    /\ s.panic = ""
    /\ (nWrites + nHeaders > 0 /\ \A g \in Goroutines : callers[g].pc = "idle")
         => /\ Len(OfType(s.output, "SYN_REPLY")) = 1
            /\ s.transferWindow = WSub(W(InitialWindow), W(DataBytes(s.output)))

-----------------------------------------------------------------------------
(* The connection: src/spdy3/conn.go, and NewClientConn of src/unnamed/part_000 *)

MaxEvents == 2

Priorities == 0..7

NoConn(err) == [kind |-> "error", err |-> err]

\* NewConn(conn, server, subversion); server says whether the *http.Server is
\* not nil. Each output channel is recorded by its capacity.
NewConn(server, subversion) ==
  [kind |-> "Conn",
   server |-> server,
   output |-> [i \in Priorities |-> 0],
   stop |-> "open",
   Subversion |-> subversion,
   nextPingID |-> IF server THEN 2 ELSE 1,
   oddity |-> IF server THEN 0 ELSE 1,
   init |-> "SETTINGS",
   numBenignErrors |-> 0]

\* NewClientConn(conn, client, version); conn and client say whether the
\* argument is not nil
NewClientConn(conn, client, version) ==
  IF ~conn THEN NoConn("Error: Connection initialised with nil net.conn.")
  ELSE IF ~client THEN NoConn("Error: Connection initialised with nil client.")
  ELSE IF version = 3
    THEN [kind |-> "connV3",
          server |-> FALSE,
          output |-> [i \in Priorities |-> 0],
          stop |-> "open",
          Subversion |-> 0,
          nextPingID |-> 2,
          oddity |-> 1,
          init |-> "nil",
          numBenignErrors |-> 0]
    ELSE NoConn("Error: Unrecognised SPDY version.")

\* what the constructors return
Constructions ==
  {NewConn(sv, sub) : sv \in BOOLEAN, sub \in {0, 1}}
    \cup {NewClientConn(cn, cl, v) : cn \in BOOLEAN, cl \in BOOLEAN, v \in {2, 3}}

SettingsFrame == Frame("SETTINGS")

SynStreamFrame(id, priority, h) ==
  [type |-> "SYN_STREAM", streamID |-> id, Priority |-> priority, Header |-> h]

\* url.Parse on the request URLs the model draws: the error it returns
urlParse(rawUrl) ==
  CASE rawUrl = "https://example.com/" -> ""
    [] rawUrl = "://" -> "missing protocol scheme"
    [] rawUrl = "https://example.com/%zz" -> "invalid URL escape"
    [] OTHER -> "missing protocol scheme"

\* http.ParseHTTPVersion on the versions the model draws
ParseHTTPVersion(vers) ==
  CASE vers = "HTTP/1.1" -> [major |-> 1, minor |-> 1, ok |-> TRUE]
    [] vers = "HTTP/1.0" -> [major |-> 1, minor |-> 0, ok |-> TRUE]
    [] OTHER -> [major |-> 0, minor |-> 0, ok |-> FALSE]

RequestHeaders ==
  {[scheme |-> "https", host |-> "example.com", path |-> "/", version |-> "HTTP/1.1"],
   [scheme |-> "", host |-> "", path |-> "", version |-> "HTTP/1.1"],
   [scheme |-> "https", host |-> "example.com", path |-> "/%zz", version |-> "HTTP/1.0"],
   [scheme |-> "https", host |-> "example.com", path |-> "/", version |-> "SPDY/3"],
   [scheme |-> "https", host |-> "example.com", path |-> "/", version |-> ""]}

\* c.check(condition, ...): counts the error and returns the condition
check(conn, condition) ==
  [conn |-> IF condition
              THEN [conn EXCEPT !.numBenignErrors = conn.numBenignErrors + 1]
              ELSE conn,
   failed |-> condition]

NoResponseStream == [nil |-> TRUE]

\* NewResponseStream(c, frame, output, handler, request) with its run begun:
\* the stream writes to the channel it is given
NewResponseStream(frame, output) ==
  [nil |-> FALSE,
   streamID |-> frame.streamID,
   Priority |-> frame.Priority,
   output |-> output,
   st |-> runBefore(NewStream(frame.streamID), <<>>),
   unsent |-> <<>>,
   state |-> "handler"]

\* newStream without the check of the HTTP version
newStreamAnyVersion(conn, frame) ==
  LET header == frame.Header
      rawUrl == header.scheme \o "://" \o header.host \o header.path
      urlCheck == check(conn, urlParse(rawUrl) # "")
  IN  IF urlCheck.failed
        THEN [conn |-> urlCheck.conn, stream |-> NoResponseStream]
        ELSE [conn |-> urlCheck.conn,
              stream |-> NewResponseStream(frame, frame.Priority)]

\* newStream giving every stream the channel of index 0
newStreamFirstChannel(conn, frame) ==
  LET header == frame.Header
      rawUrl == header.scheme \o "://" \o header.host \o header.path
      urlCheck == check(conn, urlParse(rawUrl) # "")
      versCheck == check(urlCheck.conn, ~ParseHTTPVersion(header.version).ok)
  IN  IF urlCheck.failed
        THEN [conn |-> urlCheck.conn, stream |-> NoResponseStream]
        ELSE IF versCheck.failed
          THEN [conn |-> versCheck.conn, stream |-> NoResponseStream]
          ELSE [conn |-> versCheck.conn, stream |-> NewResponseStream(frame, 0)]

\* c.newStream(frame): the connection after it and the stream it returns
newStream(conn, frame) ==
  LET header == frame.Header
      rawUrl == header.scheme \o "://" \o header.host \o header.path
      urlCheck == check(conn, urlParse(rawUrl) # "")
      vers == header.version
      versCheck == check(urlCheck.conn, ~ParseHTTPVersion(vers).ok)
  IN  IF urlCheck.failed
        THEN [conn |-> urlCheck.conn, stream |-> NoResponseStream]
        ELSE IF versCheck.failed
          THEN [conn |-> versCheck.conn, stream |-> NoResponseStream]
          ELSE [conn |-> versCheck.conn,
                stream |-> NewResponseStream(frame, frame.Priority)]

\* a goroutine blocked in output[ch] <- frame; from is the stream's id, 0 for Run
Sender(from, ch, f) == [from |-> from, ch |-> ch, frame |-> f]

NoSender == Sender(0, 0, Frame(""))

\* the channels on which a sender waits
Waiting(q) == {q[k].ch : k \in 1..Len(q)}

\* the send loop's choice among the channels with a waiting sender: the
\* highest index
selectLast(q) ==
  CHOOSE i \in Waiting(q) : \A j \in Waiting(q) : j <= i

\* the send loop's choice among the channels with a waiting sender: the
\* lowest index, which is the highest priority
selectFrameToSend(q) ==
  CHOOSE i \in Waiting(q) : \A j \in Waiting(q) : i <= j

\* the first sender waiting on channel ch
FirstOn(q, ch) ==
  CHOOSE k \in 1..Len(q) : q[k].ch = ch /\ \A j \in 1..(k - 1) : q[j].ch # ch

Without(q, k) == SubSeq(q, 1, k - 1) \o SubSeq(q, k + 1, Len(q))

\* sync.Once with every caller let in
onceAlways(o) == TRUE

\* sync.Once: Do runs the function for the first caller only
onceFresh(o) == o.runs = 0

\* an unrecovered panic in a goroutine ends the process: run and receiveFrame
\* recover nothing
Unrecovered(st) == st.panic # ""

Event(name) ==
  [op |-> name, frame |-> Frame(""), stream |-> 0, passed |-> {}, nil |-> FALSE]

ConnInit ==
  /\ c \in Constructions
  /\ ev = Event("construct")
  /\ sendq = <<>> /\ transport = <<>> /\ streams = <<>>
  /\ runpc = "new" /\ sendpc = "off" /\ readpc = "off" /\ userpc = "idle"
  /\ taken = NoSender /\ once = [runs |-> 0]
  /\ crashed = FALSE /\ nEvents = 0

Alive == c.kind = "Conn" /\ ~crashed

\* the stream's goroutine waits in a send
Blocked(id) == \E k \in 1..Len(sendq) : sendq[k].from = id

\* Run going to c.init() without starting the send loop
RunWithoutSend ==
  /\ Alive /\ runpc = "new"
  /\ runpc' = "init"
  /\ ev' = Event("go send")
  /\ UNCHANGED <<c, sendq, transport, streams, sendpc, taken, readpc, userpc, once, crashed,
               nEvents, streamVars, codecVars>>

\* Run: go c.send()
RunGoSend ==
  /\ Alive /\ runpc = "new"
  /\ runpc' = "init"
  /\ sendpc' = "ready"
  /\ ev' = Event("go send")
  /\ UNCHANGED <<c, sendq, transport, streams, taken, readpc, userpc, once, crashed, nEvents,
               streamVars, codecVars>>

\* Run: c.init() sends the SETTINGS frame on output[0] and waits for the
\* send loop to take it
RunInit ==
  /\ Alive /\ runpc = "init"
  /\ runpc' = "sending"
  /\ sendq' = Append(sendq, Sender(0, 0, SettingsFrame))
  /\ ev' = Event("init")
  /\ UNCHANGED <<c, transport, streams, sendpc, taken, readpc, userpc, once, crashed, nEvents,
               streamVars, codecVars>>

\* Run: go c.readFrames()
RunGoRead ==
  /\ Alive /\ runpc = "initialised"
  /\ runpc' = "waiting"
  /\ readpc' = "running"
  /\ ev' = Event("go readFrames")
  /\ UNCHANGED <<c, sendq, transport, streams, sendpc, taken, userpc, once, crashed, nEvents,
               streamVars, codecVars>>

\* Run: <-c.stop receives once the channel is closed
stopReceived(conn) == conn.stop = "closed"

\* Run: return nil
RunReturn ==
  /\ Alive /\ runpc = "waiting"
  /\ stopReceived(c)
  /\ runpc' = "returned"
  /\ ev' = Event("Run returns")
  /\ UNCHANGED <<c, sendq, transport, streams, sendpc, taken, readpc, userpc, once, crashed, nEvents,
               streamVars, codecVars>>

\* the send loop takes the frame of a waiting sender, whose goroutine goes on:
\* Run to its next statement, a stream to the next frame it has to send
SendTake ==
  /\ Alive /\ sendpc = "ready"
  /\ sendq # <<>>
  /\ LET ch == selectFrameToSend(sendq)
         e == sendq[FirstOn(sendq, ch)]
         q == Without(sendq, FirstOn(sendq, ch))
     IN  /\ taken' = e
         /\ ev' = [Event("take") EXCEPT
                    !.frame = e.frame, !.stream = e.from,
                    !.passed = {sendq[j].ch : j \in 1..(FirstOn(sendq, ch) - 1)}]
         /\ IF e.from = 0
              THEN /\ runpc' = "initialised"
                   /\ streams' = streams
                   /\ sendq' = q
              ELSE LET k == CHOOSE k \in 1..Len(streams) : streams[k].streamID = e.from
                       rest == streams[k].unsent
                   IN  /\ runpc' = runpc
                       /\ streams' = [streams EXCEPT
                                        ![k].unsent = IF rest = <<>> THEN <<>> ELSE Tail(rest)]
                       /\ sendq' = IF rest = <<>> THEN q
                                   ELSE Append(q, Sender(e.from, streams[k].output, Head(rest)))
  /\ sendpc' = "writing"
  /\ UNCHANGED <<c, transport, readpc, userpc, once, crashed, nEvents,
               streamVars, codecVars>>

\* the send loop writes the frame it took to the transport
SendWrite ==
  /\ Alive /\ sendpc = "writing"
  /\ transport' = Append(transport, taken)
  /\ sendpc' = "ready"
  /\ ev' = [Event("write") EXCEPT !.frame = taken.frame, !.stream = taken.from]
  /\ UNCHANGED <<c, sendq, streams, runpc, taken, readpc, userpc, once, crashed, nEvents,
               streamVars, codecVars>>

\* the read loop finds the transport closed by the teardown and ends
ReadStop ==
  /\ Alive /\ readpc = "running"
  /\ c.stop = "closed"
  /\ readpc' = "stopped"
  /\ ev' = Event("readFrames ends")
  /\ UNCHANGED <<c, sendq, transport, streams, runpc, sendpc, taken, userpc, once, crashed, nEvents,
               streamVars, codecVars>>

\* the read loop reads a SYN_STREAM frame on a server connection and calls
\* newStream; a stream it returns starts running
ReadSynStream ==
  /\ Alive /\ readpc = "running"
  /\ c.server
  /\ nEvents < MaxEvents
  /\ \E h \in RequestHeaders, p \in {0, 7} :
       LET frame == SynStreamFrame(2 * Len(streams) + 1, p, h)
           r == newStream(c, frame)
       IN  /\ c' = r.conn
           /\ streams' = IF r.stream.nil THEN streams ELSE Append(streams, r.stream)
           /\ ev' = [Event("newStream") EXCEPT !.frame = frame, !.nil = r.stream.nil]
  /\ nEvents' = nEvents + 1
  /\ UNCHANGED <<sendq, transport, runpc, sendpc, taken, readpc, userpc, once, crashed,
               streamVars, codecVars>>

\* stream k goes on as st: it sends the frames it emitted, one at a time, on
\* its output channel
Emit(k, st, state) ==
  LET fs == Emitted(streams[k].st.output, st.output)
  IN  /\ streams' = [streams EXCEPT ![k].st = st,
                                    ![k].state = state,
                                    ![k].unsent = IF fs = <<>> THEN <<>> ELSE Tail(fs)]
      /\ sendq' = IF fs = <<>> THEN sendq
                  ELSE Append(sendq, Sender(streams[k].streamID, streams[k].output, Head(fs)))

\* the handler of a stream calls Write
StreamWrite ==
  /\ Alive
  /\ nEvents < MaxEvents
  /\ \E k \in 1..Len(streams) :
       /\ streams[k].state = "handler" /\ ~Blocked(streams[k].streamID)
       /\ Emit(k, Write(streams[k].st, Buffer(streams[k].streamID, PayloadLen)).st, "handler")
       /\ ev' = [Event("Write") EXCEPT !.stream = streams[k].streamID]
  /\ nEvents' = nEvents + 1
  /\ UNCHANGED <<c, transport, runpc, sendpc, taken, readpc, userpc, once, crashed,
               streamVars, codecVars>>

\* a stream receives a frame the connection sent to it
StreamReceive ==
  /\ Alive
  /\ nEvents < MaxEvents
  /\ \E k \in 1..Len(streams), f \in {PingFrame, WindowUpdateFrame(W(40000))} :
       /\ streams[k].state = "handler" /\ ~Blocked(streams[k].streamID)
       /\ Emit(k, receiveFrame(streams[k].st, f), "handler")
       /\ crashed' = Unrecovered(receiveFrame(streams[k].st, f))
       /\ ev' = [Event("receiveFrame") EXCEPT !.frame = f, !.stream = streams[k].streamID]
  /\ nEvents' = nEvents + 1
  /\ UNCHANGED <<c, transport, runpc, sendpc, taken, readpc, userpc, once,
               streamVars, codecVars>>

\* the handler of a stream returns and run completes the stream
StreamFinish ==
  /\ Alive
  /\ \E k \in 1..Len(streams) :
       /\ streams[k].state = "handler" /\ ~Blocked(streams[k].streamID)
       /\ Emit(k, runAfter(streams[k].st), "done")
       /\ ev' = [Event("Finish") EXCEPT !.stream = streams[k].streamID]
  /\ UNCHANGED <<c, transport, runpc, sendpc, taken, readpc, userpc, once, crashed, nEvents,
               streamVars, codecVars>>

\* the read loop reads a GOAWAY frame and closes the connection
ReadGoaway ==
  /\ Alive /\ readpc = "running"
  /\ readpc' = "closing"
  /\ ev' = Event("GOAWAY")
  /\ UNCHANGED <<c, sendq, transport, streams, runpc, sendpc, taken, userpc, once, crashed, nEvents,
               streamVars, codecVars>>

\* the send loop's write fails and it closes the connection
SendError ==
  /\ Alive /\ sendpc = "writing"
  /\ sendpc' = "closing"
  /\ ev' = Event("I/O error")
  /\ UNCHANGED <<c, sendq, transport, streams, runpc, taken, readpc, userpc, once, crashed, nEvents,
               streamVars, codecVars>>

\* the local side closes the connection
UserClose ==
  /\ Alive /\ userpc = "idle"
  /\ userpc' = "closing"
  /\ ev' = Event("Close")
  /\ UNCHANGED <<c, sendq, transport, streams, runpc, sendpc, taken, readpc, once, crashed, nEvents,
               streamVars, codecVars>>

\* a goroutine that is closing the connection is through shutdownOnce.Do
\* and goes on
Closed(who) ==
  /\ readpc' = IF who = "read" THEN "stopped" ELSE readpc
  /\ sendpc' = IF who = "send" THEN "stopped" ELSE sendpc
  /\ userpc' = IF who = "user" THEN "returned" ELSE userpc

\* c.shutdownOnce.Do(c.shutdown): the teardown closes the stop channel; a
\* second close of a channel is a panic
OnceDo ==
  /\ Alive
  /\ \E who \in {"read", "send", "user"} :
       /\ \/ who = "read" /\ readpc = "closing"
          \/ who = "send" /\ sendpc = "closing"
          \/ who = "user" /\ userpc = "closing"
       /\ Closed(who)
       /\ IF onceFresh(once)
            THEN /\ once' = [runs |-> once.runs + 1]
                 /\ c' = [c EXCEPT !.stop = "closed"]
                 /\ crashed' = (c.stop = "closed")
                 /\ ev' = Event("shutdown")
            ELSE /\ ev' = Event("Do")
                 /\ UNCHANGED <<c, once, crashed>>
  /\ UNCHANGED <<sendq, transport, streams, runpc, taken, nEvents,
               streamVars, codecVars>>

ConnNext ==
  \/ RunGoSend \/ RunInit \/ RunGoRead \/ RunReturn
  \/ SendTake \/ SendWrite
  \/ ReadSynStream \/ ReadStop
  \/ StreamWrite \/ StreamReceive \/ StreamFinish
  \/ ReadGoaway \/ SendError \/ UserClose \/ OnceDo

ConnStart == ConnInit /\ StreamInit /\ CodecOff

ConnSpec == ConnStart /\ [][ConnNext]_vars

-----------------------------------------------------------------------------
(* The frame codec: src/spdy.go. A byte slice is a sequence of numbers in
   0..255; a uint32 is the pair of its two 16-bit halves, high half first. *)

U32(hi, lo) == <<hi, lo>>

\* byte(x >> 24), byte(x >> 16), byte(x >> 8), byte(x) of a uint32
Byte3(x) == x[1] \div 256
Byte2(x) == x[1] % 256
Byte1(x) == x[2] \div 256
Byte0(x) == x[2] % 256

\* b | 0x80 and b & 0x7f of a byte
Or80(b) == IF b >= 128 THEN b ELSE b + 128
And7f(b) == b % 128

bytesToUint16(b) == b[1] * 256 + b[2]
bytesToUint24(b) == b[1] * 65536 + b[2] * 256 + b[3]
bytesToUint32(b) == U32(b[1] * 256 + b[2], b[3] * 256 + b[4])
bytesToUint31(b) == U32(And7f(b[1]) * 256 + b[2], b[3] * 256 + b[4])

\* data[lo:hi]
Slice(data, lo, hi) == SubSeq(data, lo + 1, hi)

\* make([]byte, n) followed by out[0] = vals[1], out[1] = vals[2], ...: an
\* assignment past the end of the slice is a run-time panic
Filled(n, vals) ==
  IF Len(vals) > n
    THEN [bytes |-> <<>>, panic |-> "index out of range"]
    ELSE [bytes |-> [i \in 1..n |-> IF i <= Len(vals) THEN vals[i] ELSE 0], panic |-> ""]

\* the first two bytes of a control frame
VersionBytes(v) == <<Or80((v \div 256) % 256), v % 256>>

\* frame.Version = (uint16(data[0]&0x7f) << 8) + uint16(data[1])
ParseVersion(data) == And7f(data[1]) * 256 + data[2]

RstStream(v, fl, id, status) ==
  [type |-> "RST_STREAM", Version |-> v, Flags |-> fl, StreamID |-> id,
   StatusCode |-> status]

Ping(v, id) == [type |-> "PING", Version |-> v, PingID |-> id]

Goaway(v, id, status) ==
  [type |-> "GOAWAY", Version |-> v, LastGoodStreamID |-> id, StatusCode |-> status]

Parsed(f) == [frame |-> f, err |-> "", panic |-> ""]
ParseError(e) == [frame |-> [type |-> "none"], err |-> e, panic |-> ""]
ParsePanic(e) == [frame |-> [type |-> "none"], err |-> "", panic |-> e]

\* RstStreamFrame.Parse: it takes 8 bytes only and then reads data[8]
RstStreamParse(data) ==
  IF Len(data) # 8 THEN ParseError("IncorrectDataLength")
  ELSE IF data[1] < 128 THEN ParseError("InvalidField Control bit")
  ELSE IF data[3] # 0 \/ data[4] # 3 THEN ParseError("InvalidField Type")
  ELSE IF Len(data) <= 8 THEN ParsePanic("index out of range")
  ELSE IF data[9] \div 128 # 0 THEN ParseError("InvalidField Unused")
  ELSE IF bytesToUint24(Slice(data, 5, 8)) # 8 THEN ParseError("InvalidField Length")
  ELSE Parsed(RstStream(ParseVersion(data), data[5],
                        bytesToUint31(Slice(data, 8, 12)),
                        bytesToUint32(Slice(data, 12, 16))))

\* RstStreamFrame.Bytes: make([]byte, 8), then out[0] to out[15]
RstStreamBytes(f) ==
  Filled(8, VersionBytes(f.Version) \o <<0, 3, f.Flags, 0, 0, 8>>
              \o <<And7f(Byte3(f.StreamID)), Byte2(f.StreamID),
                   Byte1(f.StreamID), Byte0(f.StreamID)>>
              \o <<Byte3(f.StatusCode), Byte2(f.StatusCode),
                   Byte1(f.StatusCode), Byte0(f.StatusCode)>>)

\* PingFrame.Parse
PingParse(data) ==
  IF Len(data) # 12 THEN ParseError("IncorrectDataLength")
  ELSE IF data[1] < 128 THEN ParseError("InvalidField Control bit")
  ELSE IF data[3] # 0 \/ data[4] # 6 THEN ParseError("InvalidField Type")
  ELSE IF data[5] # 0 THEN ParseError("InvalidField Flags")
  ELSE IF bytesToUint24(Slice(data, 5, 8)) # 4 THEN ParseError("InvalidField Length")
  ELSE Parsed(Ping(ParseVersion(data), bytesToUint32(Slice(data, 8, 12))))

\* PingFrame.Bytes
PingBytes(f) ==
  Filled(12, VersionBytes(f.Version) \o <<0, 6, 0, 0, 0, 4>>
               \o <<Byte3(f.PingID), Byte2(f.PingID), Byte1(f.PingID), Byte0(f.PingID)>>)

\* GoawayFrame.Parse
GoawayParse(data) ==
  IF Len(data) # 16 THEN ParseError("IncorrectDataLength")
  ELSE IF data[1] < 128 THEN ParseError("InvalidField Control bit")
  ELSE IF data[3] # 0 \/ data[4] # 7 THEN ParseError("InvalidField Type")
  ELSE IF data[9] \div 128 # 0 THEN ParseError("InvalidField Unused")
  ELSE IF data[5] # 0 THEN ParseError("InvalidField Flags")
  ELSE IF bytesToUint24(Slice(data, 5, 8)) # 8 THEN ParseError("InvalidField Length")
  ELSE Parsed(Goaway(ParseVersion(data),
                     bytesToUint31(Slice(data, 8, 12)),
                     bytesToUint32(Slice(data, 12, 16))))

\* GoawayFrame.Bytes
GoawayBytes(f) ==
  Filled(16, VersionBytes(f.Version) \o <<0, 7, 0, 0, 0, 8>>
               \o <<And7f(Byte3(f.LastGoodStreamID)), Byte2(f.LastGoodStreamID),
                    Byte1(f.LastGoodStreamID), Byte0(f.LastGoodStreamID)>>
               \o <<Byte3(f.StatusCode), Byte2(f.StatusCode),
                    Byte1(f.StatusCode), Byte0(f.StatusCode)>>)

\* int(x) of a uint32, for the values the model draws
U32Int(x) == x[1] * 65536 + x[2]

\* x & 0x7f of a uint32
U32And7f(x) == U32(0, x[2] % 128)

\* the three and the four bytes of a length
Len24(n) == <<(n \div 65536) % 256, (n \div 256) % 256, n % 256>>
Len32(n) == <<0>> \o Len24(n)

\* the bytes of a sequence of byte slices, one after the other
RECURSIVE Flat(_)
Flat(ss) == IF ss = <<>> THEN <<>> ELSE Head(ss) \o Flat(Tail(ss))

\* Headers.Parse returns nil and Headers.Compressed returns no bytes
NoHeaderBlock == <<>>

WindowUpdate(v, id, delta) ==
  [type |-> "WINDOW_UPDATE", Version |-> v, StreamID |-> id, DeltaWindowSize |-> delta]

Credential(v, slot, proof, certs) ==
  [type |-> "CREDENTIAL", Version |-> v, Slot |-> slot, Proof |-> proof,
   Certificates |-> certs]

Data(id, fl, d) == [type |-> "DATA", StreamID |-> id, Flags |-> fl, Data |-> d]

SynStream(v, fl, id, assoc, prio, slot) ==
  [type |-> "SYN_STREAM", Version |-> v, Flags |-> fl, StreamID |-> id,
   AssocStreamID |-> assoc, Priority |-> prio, Slot |-> slot, Headers |-> NoHeaderBlock]

SynReply(v, fl, id) ==
  [type |-> "SYN_REPLY", Version |-> v, Flags |-> fl, StreamID |-> id,
   Headers |-> NoHeaderBlock]

Headers(v, fl, id) ==
  [type |-> "HEADERS", Version |-> v, Flags |-> fl, StreamID |-> id,
   Headers |-> NoHeaderBlock]

Settings(v, fl, settings) ==
  [type |-> "SETTINGS", Version |-> v, Flags |-> fl, Settings |-> settings]

\* SynStreamFrame.Parse
SynStreamParse(data) ==
  IF Len(data) < 22 THEN ParseError("IncorrectDataLength")
  ELSE IF Len(data) # 8 + bytesToUint24(Slice(data, 5, 8)) THEN ParseError("IncorrectDataLength")
  ELSE IF data[1] < 128 THEN ParseError("InvalidField Control bit")
  ELSE IF data[3] # 0 \/ data[4] # 1 THEN ParseError("InvalidField Type")
  ELSE IF data[9] \div 128 # 0 \/ data[13] \div 128 # 0 THEN ParseError("InvalidField Unused")
  ELSE IF data[17] % 32 # 0 THEN ParseError("InvalidField Unused")
  ELSE Parsed(SynStream(ParseVersion(data), data[5],
                        bytesToUint31(Slice(data, 8, 12)),
                        bytesToUint31(Slice(data, 12, 16)),
                        data[17] \div 32, data[18]))

\* SynReplyFrame.Parse
SynReplyParse(data) ==
  IF Len(data) < 12 THEN ParseError("IncorrectDataLength")
  ELSE IF data[1] < 128 THEN ParseError("InvalidField Control bit")
  ELSE IF data[3] # 0 \/ data[4] # 2 THEN ParseError("InvalidField Type")
  ELSE IF data[9] \div 128 # 0 THEN ParseError("InvalidField Unused")
  ELSE Parsed(SynReply(ParseVersion(data), data[5], bytesToUint31(Slice(data, 8, 12))))

\* the Setting at data[offset : offset+8], and those after it
RECURSIVE ParseSettings(_, _, _)
ParseSettings(data, offset, n) ==
  IF n = 0 THEN <<>>
  ELSE <<[Flags |-> data[offset + 1],
          ID |-> bytesToUint24(Slice(data, offset + 1, offset + 4)),
          Value |-> bytesToUint32(Slice(data, offset + 4, offset + 8))]>>
         \o ParseSettings(data, offset + 8, n - 1)

\* SettingsFrame.Parse: it reads data[8:12] before it looks at the length
SettingsParse(data) ==
  IF Len(data) < 12 THEN ParsePanic("slice bounds out of range")
  ELSE LET numSettings == U32Int(bytesToUint32(Slice(data, 8, 12)))
       IN  IF Len(data) # 8 + bytesToUint24(Slice(data, 5, 8))
             THEN ParseError("IncorrectDataLength")
           ELSE IF Len(data) < 12 + 8 * numSettings THEN ParseError("IncorrectDataLength")
           ELSE IF data[1] < 128 THEN ParseError("InvalidField Control bit")
           ELSE IF data[3] # 0 \/ data[4] # 4 THEN ParseError("InvalidField Type")
           ELSE Parsed(Settings(ParseVersion(data), data[5],
                                ParseSettings(data, 12, numSettings)))

\* HeadersFrame.Parse
HeadersParse(data) ==
  IF Len(data) < 12 THEN ParseError("IncorrectDataLength")
  ELSE IF Len(data) # 8 + bytesToUint24(Slice(data, 5, 8)) THEN ParseError("IncorrectDataLength")
  ELSE IF data[1] < 128 THEN ParseError("InvalidField Control bit")
  ELSE IF data[3] # 0 \/ data[4] # 8 THEN ParseError("InvalidField Type")
  ELSE IF data[9] \div 128 # 0 THEN ParseError("InvalidField Unused")
  ELSE Parsed(Headers(ParseVersion(data), data[5], bytesToUint31(Slice(data, 8, 12))))

\* WindowUpdateFrame.Parse: it takes 12 bytes or more and reads data[12] and
\* data[12:16]; it keeps the low 7 bits of the delta
WindowUpdateParse(data) ==
  IF Len(data) < 12 THEN ParseError("IncorrectDataLength")
  ELSE IF data[1] < 128 THEN ParseError("InvalidField Control bit")
  ELSE IF data[3] # 0 \/ data[4] # 9 THEN ParseError("InvalidField Type")
  ELSE IF Len(data) <= 12 THEN ParsePanic("index out of range")
  ELSE IF data[9] \div 128 # 0 \/ data[13] \div 128 # 0 THEN ParseError("InvalidField Unused")
  ELSE IF bytesToUint24(Slice(data, 5, 8)) # 8 THEN ParseError("InvalidField Length")
  ELSE IF Len(data) < 16 THEN ParsePanic("slice bounds out of range")
  ELSE Parsed(WindowUpdate(ParseVersion(data),
                           bytesToUint31(Slice(data, 8, 12)),
                           U32And7f(bytesToUint32(Slice(data, 12, 16)))))

\* WindowUpdateFrame.Bytes: make([]byte, 12), then out[0] to out[15]; the
\* type code it writes is 8
WindowUpdateBytes(f) ==
  Filled(12, VersionBytes(f.Version) \o <<0, 8, 0, 0, 0, 8>>
               \o <<And7f(Byte3(f.StreamID)), Byte2(f.StreamID),
                    Byte1(f.StreamID), Byte0(f.StreamID)>>
               \o <<And7f(Byte3(f.DeltaWindowSize)), Byte2(f.DeltaWindowSize),
                    Byte1(f.DeltaWindowSize), Byte0(f.DeltaWindowSize)>>)

\* the two loops of CredentialFrame.Parse from offset on: the certificates,
\* or a panic when a length or a certificate runs past the end of data
RECURSIVE ParseCerts(_, _)
ParseCerts(data, offset) ==
  IF offset >= Len(data) THEN [certs |-> <<>>, panic |-> ""]
  ELSE IF offset + 4 > Len(data) THEN [certs |-> <<>>, panic |-> "slice bounds out of range"]
  ELSE LET length == U32Int(bytesToUint32(Slice(data, offset, offset + 4)))
       IN  IF offset + 4 + length > Len(data)
             THEN [certs |-> <<>>, panic |-> "slice bounds out of range"]
             ELSE LET rest == ParseCerts(data, offset + length + 4)
                  IN  [certs |-> <<Slice(data, offset + 4, offset + 4 + length)>> \o rest.certs,
                       panic |-> rest.panic]

\* CredentialFrame.Parse
CredentialParse(data) ==
  IF Len(data) < 14 THEN ParseError("IncorrectDataLength")
  ELSE IF Len(data) # 8 + bytesToUint24(Slice(data, 5, 8)) THEN ParseError("IncorrectDataLength")
  ELSE IF data[1] < 128 THEN ParseError("InvalidField Control bit")
  ELSE IF data[3] # 0 \/ data[4] # 10 THEN ParseError("InvalidField Type")
  ELSE IF data[5] # 0 THEN ParseError("InvalidField Flags")
  ELSE LET proofLen == U32Int(bytesToUint32(Slice(data, 10, 14)))
       IN  IF 14 + proofLen > Len(data) THEN ParsePanic("slice bounds out of range")
           ELSE LET cs == ParseCerts(data, 14 + proofLen)
                IN  IF cs.panic # "" THEN ParsePanic(cs.panic)
                    ELSE Parsed(Credential(ParseVersion(data),
                                           bytesToUint16(Slice(data, 8, 10)),
                                           Slice(data, 14, 14 + proofLen),
                                           cs.certs))

\* CredentialFrame.Bytes: the certificates are appended as they are, and the
\* length counts their bytes only
CredentialBytes(f) ==
  LET length == 6 + Len(f.Proof) + Len(Flat(f.Certificates))
  IN  [bytes |-> VersionBytes(f.Version) \o <<0, 10, 0>> \o Len24(length)
                   \o <<f.Slot \div 256, f.Slot % 256>> \o Len32(Len(f.Proof))
                   \o f.Proof \o Flat(f.Certificates),
       panic |-> ""]

\* DataFrame.Parse: the length it uses is bytesToUint16(data[2:4]), and its
\* test of the control bit compares data[0]&0x80 with 1
DataParse(data) ==
  IF Len(data) < 8 THEN ParseError("IncorrectDataLength")
  ELSE IF Len(data) < 8 + bytesToUint16(Slice(data, 2, 4)) THEN ParseError("IncorrectDataLength")
  ELSE IF (data[1] \div 128) * 128 = 1 THEN ParseError("InvalidField Control bit")
  ELSE Parsed(Data(bytesToUint31(Slice(data, 0, 4)), data[5],
                   Slice(data, 8, 8 + bytesToUint16(Slice(data, 2, 4)))))

\* the Bytes method after DataFrame.Parse, declared on WindowUpdateFrame
DataFrameBytes(f) ==
  [bytes |-> <<And7f(Byte3(f.StreamID)), Byte2(f.StreamID),
               Byte1(f.StreamID), Byte0(f.StreamID), f.Flags>>
               \o Len24(Len(f.Data)) \o f.Data,
   panic |-> ""]

\* frame.Bytes()
Bytes(f) ==
  CASE f.type = "RST_STREAM" -> RstStreamBytes(f)
    [] f.type = "PING" -> PingBytes(f)
    [] f.type = "GOAWAY" -> GoawayBytes(f)
    [] f.type = "WINDOW_UPDATE" -> WindowUpdateBytes(f)
    [] f.type = "CREDENTIAL" -> CredentialBytes(f)
    [] f.type = "DATA" -> DataFrameBytes(f)

\* new(T).Parse(data) for the frame type T
ParseAs(type, data) ==
  CASE type = "SYN_STREAM" -> SynStreamParse(data)
    [] type = "SYN_REPLY" -> SynReplyParse(data)
    [] type = "RST_STREAM" -> RstStreamParse(data)
    [] type = "SETTINGS" -> SettingsParse(data)
    [] type = "PING" -> PingParse(data)
    [] type = "GOAWAY" -> GoawayParse(data)
    [] type = "HEADERS" -> HeadersParse(data)
    [] type = "WINDOW_UPDATE" -> WindowUpdateParse(data)
    [] type = "CREDENTIAL" -> CredentialParse(data)
    [] type = "DATA" -> DataParse(data)

\* the package's Parse(data): both branches are empty and the function ends
\* in panic("Unreachable"); data[0] of an empty slice is a panic before that
Parse(data) ==
  IF Len(data) = 0 THEN ParsePanic("index out of range") ELSE ParsePanic("Unreachable")

\* the least and greatest values of the fields, and one between
FrameVersions == {0, 3, 32767}
FrameFlags == {0, 1, 255}
StreamIDs == {U32(0, 0), U32(0, 1), U32(32767, 65535)}
Words == {U32(0, 0), U32(0, 3), U32(65535, 65535)}
Deltas31 == {U32(0, 0), U32(0, 127), U32(0, 40000), U32(32767, 65535)}
Payloads8 == {<<>>, <<7>>, <<1, 2, 3>>}
CertLists == {<<>>, <<<<7>>>>, <<<<0, 0, 0, 0>>>>, <<<<1, 2>>, <<3>>>>}

CodecFrames ==
  {RstStream(v, fl, id, st) : v \in FrameVersions, fl \in FrameFlags,
                              id \in StreamIDs, st \in Words}
    \cup {Ping(v, id) : v \in FrameVersions, id \in Words}
    \cup {Goaway(v, id, st) : v \in FrameVersions, id \in StreamIDs, st \in Words}
    \cup {WindowUpdate(3, id, d) : id \in StreamIDs, d \in Deltas31}
    \cup {Credential(3, slot, proof, certs) :
            slot \in {0, 1, 65535}, proof \in Payloads8, certs \in CertLists}
    \cup {Data(id, fl, d) : id \in StreamIDs, fl \in FrameFlags, d \in Payloads8}

FrameTypes ==
  {"SYN_STREAM", "SYN_REPLY", "RST_STREAM", "SETTINGS", "PING", "GOAWAY",
   "HEADERS", "WINDOW_UPDATE", "CREDENTIAL", "DATA"}

\* the type code of a control frame, and the least number of bytes after the
\* 8-byte header that a frame of the type has
TypeCode(type) ==
  CASE type = "SYN_STREAM" -> 1 [] type = "SYN_REPLY" -> 2 [] type = "RST_STREAM" -> 3
    [] type = "SETTINGS" -> 4 [] type = "PING" -> 6 [] type = "GOAWAY" -> 7
    [] type = "HEADERS" -> 8 [] type = "WINDOW_UPDATE" -> 9 [] type = "CREDENTIAL" -> 10
    [] type = "DATA" -> 0

BodyLen(type) ==
  CASE type = "SYN_STREAM" -> 14 [] type = "SYN_REPLY" -> 4 [] type = "RST_STREAM" -> 8
    [] type = "SETTINGS" -> 4 [] type = "PING" -> 4 [] type = "GOAWAY" -> 8
    [] type = "HEADERS" -> 4 [] type = "WINDOW_UPDATE" -> 8 [] type = "CREDENTIAL" -> 6
    [] type = "DATA" -> 2

Zeros(n) == [i \in 1..n |-> 0]

\* a frame of the type as the wire format lays it out, all fields zero: the
\* control bit, version 3 and the type code, or stream id 0 for DATA; then
\* the flags, the length of the body and the body
WellFormed(type) ==
  (IF type = "DATA" THEN <<0, 0, 0, 0>> ELSE <<128, 3, 0, TypeCode(type)>>)
    \o <<0>> \o Len24(BodyLen(type)) \o Zeros(BodyLen(type))

\* the inputs given to Parse: well-formed frames, and the same with the
\* control bit inverted, with one more byte than the length declares, cut
\* after the header, cut inside the header, and empty
WireInputs(type) ==
  LET w == WellFormed(type)
  IN  {w,
       [w EXCEPT ![1] = (w[1] + 128) % 256],
       w \o <<0>>,
       SubSeq(w, 1, 8),
       SubSeq(w, 1, 4),
       <<>>}

\* a frame to encode, or bytes to parse as a frame of a type
CodecInit ==
  /\ frameOut = Parsed([type |-> "none"])
  /\ \/ /\ frameIn \in CodecFrames
        /\ bytesOut = [bytes |-> <<>>, panic |-> ""]
        /\ codecpc = "frame"
     \/ /\ \E type \in FrameTypes :
             /\ frameIn = [type |-> type]
             /\ \E w \in WireInputs(type) : bytesOut = [bytes |-> w, panic |-> ""]
        /\ codecpc = "wire"

\* the frame is encoded
Encode ==
  /\ codecpc = "frame"
  /\ bytesOut' = Bytes(frameIn)
  /\ codecpc' = IF Bytes(frameIn).panic = "" THEN "bytes" ELSE "panic"
  /\ UNCHANGED <<frameIn, frameOut, streamVars, connVars>>

\* the bytes are parsed as a frame of the same type
Decode ==
  /\ codecpc = "bytes"
  /\ frameOut' = ParseAs(frameIn.type, bytesOut.bytes)
  /\ codecpc' = IF ParseAs(frameIn.type, bytesOut.bytes).panic = "" THEN "parsed" ELSE "panic"
  /\ UNCHANGED <<frameIn, bytesOut, streamVars, connVars>>

\* bytes from the wire are given to the Parse method of a frame type
ParseWire ==
  /\ codecpc = "wire"
  /\ frameOut' = ParseAs(frameIn.type, bytesOut.bytes)
  /\ codecpc' = "wire parsed"
  /\ UNCHANGED <<frameIn, bytesOut, streamVars, connVars>>

\* bytes from the wire are given to the package's Parse
ParsePackage ==
  /\ codecpc = "wire"
  /\ frameOut' = Parse(bytesOut.bytes)
  /\ codecpc' = "package parsed"
  /\ UNCHANGED <<frameIn, bytesOut, streamVars, connVars>>

CodecNext == Encode \/ Decode \/ ParseWire \/ ParsePackage

CodecStart == CodecInit /\ StreamInit /\ ConnOff

CodecSpec == CodecStart /\ [][CodecNext]_vars

-----------------------------------------------------------------------------
(* Claims about the connection *)

\* C14: a frame of a type other than DATA, HEADERS or WINDOW_UPDATE given to a
\* stream's receiveFrame fails that stream only: the process, the connection
\* and the other streams keep running.
UnknownFrameFailsStreamOnly ==
  (/\ ev.op = "receiveFrame"
   /\ ev.frame.type \notin {"DATA", "HEADERS", "WINDOW_UPDATE"})
  => ~crashed

\* C15: a stream's Write never blocks its caller: once it has reached its send
\* on the stream's priority channel it goes on, whether or not the send loop
\* is at its receive, also after the send loop has stopped.
WriteNeverBlocks ==
  (ev.op = "Write" /\ Blocked(ev.stream)) => sendpc = "ready"

\* C16: when the send loop takes a frame while several priority channels have
\* a waiting frame, it takes the frame of the lowest channel index, whatever
\* the order in which the producers arrived.
LowestChannelFirst ==
  [][ev'.op = "take" => \A k \in 1..Len(sendq) : taken'.ch <= sendq[k].ch]_vars

\* the send loop took a frame from channel 0 past a producer that had arrived
\* earlier on channel 7
LowestChannelFirstWitness ==
  ev.op = "take" /\ taken.ch = 0 /\ 7 \in ev.passed

\* C17: the teardown runs once whatever triggers fire and however they
\* interleave: the stop channel is closed exactly once, and Run returns only
\* after it has been closed.
TeardownOnce ==
  c.kind = "Conn" =>
    /\ once.runs <= 1
    /\ ev.op \in {"shutdown", "Do"} => (once.runs = 1 /\ c.stop = "closed" /\ ~crashed)
    /\ runpc = "returned" => c.stop = "closed"

\* a second trigger came through shutdownOnce.Do after the teardown had run
TeardownOnceWitness ==
  ev.op = "Do" /\ once.runs = 1 /\ c.stop = "closed" /\ userpc = "returned"

\* the role of a connection: NewConn makes a server connection exactly when it
\* is given a server, NewClientConn makes client connections
Role(conn) == IF conn.kind = "Conn" /\ conn.server THEN "server" ELSE "client"

\* C18: every constructor sets the next ping id to the parity of the
\* connection's role: even for a server, odd for a client.
PingParity ==
  c.kind \in {"Conn", "connV3"} =>
    c.nextPingID % 2 = (IF Role(c) = "server" THEN 0 ELSE 1)

\* the headers give no valid request URL or no valid HTTP version
InvalidRequest(h) ==
  \/ urlParse(h.scheme \o "://" \o h.host \o h.path) # ""
  \/ ~ParseHTTPVersion(h.version).ok

\* C19: for a SYN_STREAM whose headers give no valid request URL or no valid
\* HTTP version, newStream returns no stream: none is constructed or run and
\* nothing is sent on a priority channel.
NoStreamForInvalidRequest ==
  [][(ev'.op = "newStream" /\ InvalidRequest(ev'.frame.Header))
       => (ev'.nil /\ streams' = streams /\ sendq' = sendq)]_vars

\* newStream has turned down a request with a valid URL and an invalid version
NoStreamForInvalidRequestWitness ==
  /\ ev.op = "newStream" /\ ev.nil
  /\ urlParse(ev.frame.Header.scheme \o "://" \o ev.frame.Header.host
                \o ev.frame.Header.path) = ""
  /\ ~ParseHTTPVersion(ev.frame.Header.version).ok
  /\ c.numBenignErrors = 1

\* the SETTINGS frame of init waits for the send loop
SettingsWaits == \E k \in 1..Len(sendq) : sendq[k].from = 0

\* C29: Run starts the send loop before init, so the SETTINGS frame init puts
\* on channel 0 is taken by the send loop and Run does not stay in init; the
\* read loop is started only after the frame is handed over; Run then waits
\* until the stop channel is closed.
RunOrder ==
  c.kind = "Conn" =>
    /\ runpc # "new" => sendpc # "off"
    /\ runpc = "sending"
         => /\ sendpc = "ready"
            /\ SettingsWaits
            /\ sendq[FirstOn(sendq, selectFrameToSend(sendq))].from = 0
    /\ readpc # "off" => (runpc \in {"waiting", "returned"} /\ ~SettingsWaits)
    /\ runpc = "returned" => c.stop = "closed"

\* the SETTINGS frame was written, the read loop runs and Run waits for the
\* stop channel
RunOrderWitness ==
  /\ runpc = "waiting" /\ readpc = "running" /\ c.stop = "open"
  /\ Len(transport) >= 1 /\ transport[1].frame = SettingsFrame

\* the frames stream k has produced and the send loop has not taken
Untaken(k) ==
  SelectSeq(sendq, LAMBDA e : e.from = streams[k].streamID) \o
    [i \in 1..Len(streams[k].unsent) |->
       Sender(streams[k].streamID, streams[k].output, streams[k].unsent[i])]

\* the frames a stream has not handed over are the last it produced, in
\* order, one of them at most waits in a send, on the channel whose index is
\* the priority of the stream's SYN_STREAM
OwnChannelInOrder ==
  \A k \in 1..Len(streams) :
    LET u == Untaken(k)
        out == streams[k].st.output
    IN  /\ Len(SelectSeq(sendq, LAMBDA e : e.from = streams[k].streamID)) <= 1
        /\ Len(u) <= Len(out)
        /\ \A i \in 1..Len(u) :
             /\ u[i].ch = streams[k].Priority
             /\ u[i].frame = out[Len(out) - Len(u) + i]

\* C30: every frame a response stream emits is sent on the priority channel
\* whose index is the priority of the SYN_STREAM that opened it, and the
\* frames of a stream reach the send loop in the order it produced them.
StreamFramesInOrder ==
  [][/\ OwnChannelInOrder'
     /\ (ev'.op = "take" /\ ev'.stream # 0)
          => \E k \in 1..Len(streams) :
               /\ streams[k].streamID = ev'.stream
               /\ taken' = Untaken(k)[1]
               /\ taken'.ch = streams[k].Priority]_vars

\* the send loop has written the SYN_REPLY and then the DATA frame of a
\* stream of priority 7, both taken from channel 7
StreamFramesInOrderWitness ==
  \E i, j \in 1..Len(transport) :
    /\ i < j
    /\ transport[i].from = transport[j].from /\ transport[i].from # 0
    /\ transport[i].ch = 7 /\ transport[j].ch = 7
    /\ transport[i].frame.type = "SYN_REPLY" /\ transport[j].frame.type = "DATA"

-----------------------------------------------------------------------------
(* Claims about the codec *)

\* PING and GOAWAY frames come back from Parse(Bytes(f)) as they were
PingGoawayRoundTrip ==
  (frameIn.type \in {"PING", "GOAWAY"} /\ codecpc # "frame")
    => /\ codecpc # "panic"
       /\ codecpc = "parsed" => (frameOut.err = "" /\ frameOut.frame = frameIn)

\* C20: for RST_STREAM, PING and GOAWAY frames Bytes gives the encoding and
\* Parse of it succeeds and gives back every field of the frame.
ControlRoundTrip ==
  (frameIn.type \in {"RST_STREAM", "PING", "GOAWAY"} /\ codecpc # "frame")
    => /\ codecpc # "panic"
       /\ codecpc = "parsed" => (frameOut.err = "" /\ frameOut.frame = frameIn)

\* the frame was given to Bytes, and the bytes, if any, to Parse
Encoded == codecpc \in {"bytes", "parsed", "panic"}

\* Bytes gave an encoding, and Parse of it succeeded and gave back the frame
RoundTrip ==
  /\ codecpc # "panic"
  /\ codecpc = "parsed" => (frameOut.err = "" /\ frameOut.frame = frameIn)

\* C21: for WINDOW_UPDATE frames Parse(Bytes(f)) succeeds and gives back the
\* stream id and the whole 31-bit delta, and the encoding carries the type
\* code 9 that Parse expects.
WindowUpdateRoundTrip ==
  (frameIn.type = "WINDOW_UPDATE" /\ Encoded)
    => (RoundTrip /\ bytesOut.bytes[4] = TypeCode("WINDOW_UPDATE"))

\* C22: for CREDENTIAL frames with any number of certificates Parse(Bytes(f))
\* gives back the slot, the proof and the same certificates in order, the
\* encoder writing each certificate after its 32-bit length and counting the
\* lengths in the frame length.
CredentialRoundTrip ==
  (frameIn.type = "CREDENTIAL" /\ Encoded)
    => /\ RoundTrip
       /\ bytesToUint24(Slice(bytesOut.bytes, 5, 8))
            = 6 + Len(frameIn.Proof) + Len(Flat(frameIn.Certificates))
                + 4 * Len(frameIn.Certificates)

\* CREDENTIAL frames without certificates come back as they were
CredentialNoCertsRoundTrip ==
  (frameIn.type = "CREDENTIAL" /\ Encoded /\ frameIn.Certificates = <<>>) => RoundTrip

\* C23: for DATA frames, parsing the encoding gives back the stream id, the
\* flags and the payload, whatever the stream id and the payload length.
DataRoundTrip ==
  (frameIn.type = "DATA" /\ Encoded) => RoundTrip

\* the input is a well-formed frame of its type but for the control bit
ControlBitInverted ==
  /\ codecpc = "wire parsed"
  /\ bytesOut.bytes = [WellFormed(frameIn.type) EXCEPT
                         ![1] = (WellFormed(frameIn.type)[1] + 128) % 256]

\* C24: every Parse rejects an input whose control bit does not match its
\* category with an invalid-field error: a control frame with the bit clear,
\* a DATA frame with the bit set.
ControlBitChecked ==
  ControlBitInverted => frameOut.err = "InvalidField Control bit"

\* C25: every Parse returns an error and assigns no field when the length
\* declared in bytes 5..7 is not the number of input bytes minus 8.
LengthChecked ==
  (/\ codecpc = "wire parsed"
   /\ Len(bytesOut.bytes) >= 8
   /\ bytesToUint24(Slice(bytesOut.bytes, 5, 8)) # Len(bytesOut.bytes) - 8)
  => (frameOut.err # "" /\ frameOut.panic = "" /\ frameOut.frame.type = "none")

\* C26: for every frame type and every input, also one shorter than the
\* header, Parse succeeds or returns an error: it never reads past the end
\* of the input.
ParseNeverFaults ==
  codecpc = "wire parsed" => frameOut.panic = ""

\* C27: the package's Parse returns a frame of the type the input names, or
\* an error, for every input: it never aborts its caller.
PackageParseReturns ==
  codecpc = "package parsed"
    => /\ frameOut.panic = ""
       /\ frameOut.err = "" => frameOut.frame.type \in FrameTypes

====
